---- MODULE Spec2Model ----
(***************************************************************************)
(* Cable robot calibration (cable-robot/src/main.py) and the stand-alone   *)
(* relax task (cable-robot/tasks/relax.py).                                *)
(*                                                                         *)
(* The script is a straight-line program: a tensioning stage, four corner  *)
(* iterations, the center computation and the final move.  Its state is    *)
(* the module-level calibration variables, the position in the script and  *)
(* the four motors (angle, motion, last command, awaited task).            *)
(*                                                                         *)
(* The motor driver and the multitask combinator belong to pybricks.  A    *)
(* motor in run_until_stalled turns one encoder degree at a time in the    *)
(* direction of its speed and may stall at any moment; run_time turns the  *)
(* motor at its speed until its time is over; run_target ends on the       *)
(* target; a task cancelled by a race coasts.                              *)
(***************************************************************************)
EXTENDS Integers, Sequences, FiniteSets, TLC

\* ------------------------------------------------------------------------
\* Model constants of main.py
STALL_TENSION_CLUTCH_DUTY_LIMIT == 22
STALL_COLLISION_CLUTCH_DUTY_LIMIT == 18
SPEED_MAX_ANGLE_PER_SEC_CALIBRATION == 300
SPEED_MAX_ANGLE_PER_SEC == 1500
RELAX_TIME == 1000
RELAX_SETTLE_TIME == 500

\* Speed direction sign multiplier
reel_in == 1
reel_out == reel_in * (-1)

\* ------------------------------------------------------------------------
\* Bounds of the model

\* Encoder degrees the four motors may turn, in total, inside
\* run_until_stalled commands during one run; past it every such command
\* stalls where it is.
MaxTravel == 2

\* ------------------------------------------------------------------------
\* Motors
Motors == {"top_left", "bottom_right", "top_right", "bottom_left"}

\* Time advances in steps of this many milliseconds.
Tick == RELAX_SETTLE_TIME

Sign(x) == IF x > 0 THEN 1 ELSE IF x < 0 THEN -1 ELSE 0

\* ------------------------------------------------------------------------
\* Values
\* None, and a set value
None == [set |-> FALSE, val |-> 0]
Some(v) == [set |-> TRUE, val |-> v]

\* A Python number: an int n is num/den with den = 1, a float with a
\* fractional half has den = 2.
Num(n) == [num |-> n, den |-> 1]
NoneNum == [set |-> FALSE, val |-> Num(0)]

\* a // 2, floor division, in the place of a / 2
TrueDivFloor(a) == Num(a \div 2)

\* Python's a / 2 on an int a: true division, the result is a float.
TrueDiv2(a) == IF a % 2 = 0 THEN Num(a \div 2) ELSE [num |-> a, den |-> 2]

\* q + n for a Python number q and an int n
AddInt(q, n) == [num |-> q.num + n * q.den, den |-> q.den]

\* Stage 3.1: (max - min) / 2 + min
Center(min, max) == AddInt(TrueDiv2(max - min), min)

\* The encoder angle a target is converted to: the driver takes the
\* integer part of a float (truncation toward zero).
TargetAngle(q) ==
    IF q.den = 1 THEN q.num
    ELSE IF q.num >= 0 THEN q.num \div q.den ELSE -((-q.num) \div q.den)

\* ------------------------------------------------------------------------
\* The script: the order of the top-level statements of main.py.
\* step "s.x" of corner c is Stage 2.c.x of the source.
At(step, c) == [step |-> step, corner |-> c]

\* an iteration without its Stage 2.c.6
IterationStepsNoRelax ==
    <<"2.1", "2.1_await", "2.2", "2.3", "2.4", "2.4_await",
      "2.5", "2.7", "2.7_await", "2.8", "2.8_wait">>

\* an iteration without its Stage 2.c.7, the return to the origin
IterationStepsNoReturn ==
    <<"2.1", "2.1_await", "2.2", "2.3", "2.4", "2.4_await",
      "2.5", "2.6", "2.6_wait", "2.8", "2.8_wait">>

\* the statements of one corner iteration
IterationSteps == <<"2.1", "2.1_await", "2.2", "2.3", "2.4", "2.4_await",
                    "2.5", "2.6", "2.6_wait", "2.7", "2.7_await",
                    "2.8", "2.8_wait">>

Iteration(c) == [i \in 1..Len(IterationSteps) |-> At(IterationSteps[i], c)]

MainScript ==
    << At("1.1", 0), At("1.1_await", 0), At("1.1_end", 0),
       At("1.2", 0), At("1.2_wait", 0) >>
    \o Iteration(1) \o Iteration(2) \o Iteration(3) \o Iteration(4)
    \o << At("3.1", 0), At("3.2", 0), At("3.2_await", 0), At("end", 0),
          At("TypeError", 0) >>

\* tasks/relax.py
RelaxScript == << At("t.run", 0), At("t.wait", 0), At("t.end", 0) >>

\* Stage 3 on its own, the center computation applied twice: the Stage 3.1
\* statements and travel_to_center run on whatever the module-level
\* variables hold
Stage3Script ==
    << At("3.1", 0), At("3.1", 0), At("3.2", 0), At("3.2_await", 0),
       At("end", 0), At("TypeError", 0) >>

\* one call of a stage function with a speed argument of the caller's
CallScript ==
    << At("call", 0), At("call_await", 0), At("end", 0), At("TypeError", 0) >>

\* one call of relax_tension with a speed argument of the caller's
CallRelaxScript == << At("call_relax", 0), At("call_wait", 0), At("end", 0) >>

Script(prog) ==
    CASE prog = "main" -> MainScript
      [] prog = "relax" -> RelaxScript
      [] prog = "stage3" -> Stage3Script
      [] prog = "call" -> CallScript
      [] prog = "call_relax" -> CallRelaxScript

\* ------------------------------------------------------------------------
\* The four corner iterations, in the order of the source:
\* 2.1 top left, 2.2 bottom right, 2.3 bottom left, 2.4 top right.

\* the motor that reels in during Stage 2.c.1 and whose min Stage 2.c.2 saves
Driven(c) == <<"top_left", "bottom_right", "bottom_left", "top_right">>[c]

\* the motor Stage 2.c.3 calls hold() on
HoldTarget(c) == <<"top_left", "bottom_right", "bottom_right", "top_right">>[c]

\* the partners combined with race=True
PartnersRaceOn == TRUE

\* Stage 2.c.4 is a multitask without race: join-all
PartnersRace == FALSE

\* the motors Stage 2.c.4 reels in
Partners(c) == << {"bottom_right", "top_right", "bottom_left"},
                  {"top_left", "top_right", "bottom_left"},
                  {"top_left", "top_right", "bottom_right"},
                  {"top_left", "bottom_left", "bottom_right"} >>[c]

\* Stage 2.3.5 saving top_left_travel_max, as Stage 2.2.5 does
MaxTargetSame(c) ==
    <<"bottom_right", "top_left", "top_left", "bottom_left">>[c]

\* Stage 2.c.5: the motor whose max, right_neighbor, left_neighbor is saved
MaxTarget(c) == <<"bottom_right", "top_left", "top_right", "bottom_left">>[c]

\* the right_neighbor saved where the left_neighbor belongs
RightNeighborTargetMirrored(c) ==
    <<"bottom_left", "top_right", "bottom_right", "top_left">>[c]

\* the right_neighbor taken from the diagonal partner
RightNeighborTargetDiagonal(c) == MaxTarget(c)

RightNeighborTarget(c) ==
    <<"top_right", "bottom_left", "top_left", "bottom_right">>[c]

\* Stage 2.3.5 saving bottom_left_travel_left_neighbor, as Stage 2.1.5 does
LeftNeighborTargetRepeated(c) ==
    <<"bottom_left", "top_right", "bottom_left", "top_left">>[c]

LeftNeighborTarget(c) ==
    <<"bottom_left", "top_right", "bottom_right", "top_left">>[c]

\* ------------------------------------------------------------------------
VARIABLES
    program,                 \* "main" or "relax": which script runs
    ip,                      \* position in the script
    angle,                   \* motor.angle() of each motor
    mode,                    \* "coast", "hold" or "running"
    cmd,                     \* the last command each motor received
    timeLeft,                \* ms left of a motor's run_time
    waitLeft,                \* ms left of the script's wait()
    task,                    \* the awaited task of each motor
    race,                    \* the multitask in flight is a race
    telemetry,               \* log_load: "off", or alive and "running"
                             \* (about to print) or "waiting" (in its wait)
    travelled,               \* degrees turned in run_until_stalled so far
    calibration_initial,
    calibration_tensioned,
    travel_min,
    travel_max,
    travel_center,
    travel_left_neighbor,
    travel_right_neighbor,
    writes,                  \* per field and motor: the stages that wrote it
    roles,                   \* per motor: its part in each stage of a corner
    visited,                 \* the stages entered so far, in order
    rested                   \* ms since the reel-out of the last relax stage
                             \* ended, up to RELAX_SETTLE_TIME; -1: no relax yet

motorVars == <<angle, mode, cmd, timeLeft, task, race, telemetry, travelled>>
dataVars == <<calibration_initial, calibration_tensioned, travel_min,
              travel_max, travel_center, travel_left_neighbor,
              travel_right_neighbor, writes>>
vars == <<program, ip, waitLeft, visited, roles, rested, motorVars, dataVars>>

pc == Script(program)[ip].step
corner == Script(program)[ip].corner

Fields == {"min", "max", "center", "left_neighbor", "right_neighbor",
           "calibration_tensioned"}

\* ------------------------------------------------------------------------
\* Commands
NoCmd ==
    [kind |-> "none", speed |-> 0, then |-> "none", duty |-> 0,
     target |-> Num(0), time |-> 0, step |-> "none", corner |-> 0]

run_until_stalled(speed, then, duty_limit) ==
    [kind |-> "run_until_stalled", speed |-> speed, then |-> then,
     duty |-> duty_limit, target |-> Num(0), time |-> 0,
     step |-> pc, corner |-> corner]

run_time(speed, time, then) ==
    [kind |-> "run_time", speed |-> speed, then |-> then, duty |-> 0,
     target |-> Num(0), time |-> time, step |-> pc, corner |-> corner]

run_target(speed, target_angle, then) ==
    [kind |-> "run_target", speed |-> speed, then |-> then, duty |-> 0,
     target |-> target_angle, time |-> 0, step |-> pc, corner |-> corner]

run(speed) ==
    [kind |-> "run", speed |-> speed, then |-> "none", duty |-> 0,
     target |-> Num(0), time |-> 0, step |-> pc, corner |-> corner]

hold ==
    [kind |-> "hold", speed |-> 0, then |-> "HOLD", duty |-> 0,
     target |-> Num(0), time |-> 0, step |-> pc, corner |-> corner]

\* the motion a finished command leaves the motor in
StopMode(then) == IF then = "HOLD" THEN "hold" ELSE "coast"

\* ------------------------------------------------------------------------
\* Stage functions: the commands each stage hands to multitask

\* bring_under_tension with race=True
TensionRaceOn == TRUE

\* Stage 1.1: a multitask without race, join-all
TensionRace == FALSE

bring_under_tension(speed) ==
    [m \in Motors |->
        run_until_stalled(speed * reel_in, "HOLD",
                          STALL_TENSION_CLUTCH_DUTY_LIMIT)]

\* travel_to_<corner>_zero_position without race=True
ZeroPositionJoin == FALSE

\* Stage 2.c.1: race=True, stop all when one stalls
ZeroPositionRace == TRUE

\* the drive-to-limit stage sensing with the tension duty limit
travel_to_zero_position_tension_duty(c, speed) ==
    [m \in Motors |->
        IF m = Driven(c)
        THEN run_until_stalled(speed * reel_in, "HOLD",
                               STALL_TENSION_CLUTCH_DUTY_LIMIT)
        ELSE run_until_stalled(speed * reel_out, "HOLD",
                               STALL_COLLISION_CLUTCH_DUTY_LIMIT)]

travel_to_zero_position(c, speed) ==
    [m \in Motors |->
        IF m = Driven(c)
        THEN run_until_stalled(speed * reel_in, "HOLD",
                               STALL_COLLISION_CLUTCH_DUTY_LIMIT)
        ELSE run_until_stalled(speed * reel_out, "HOLD",
                               STALL_COLLISION_CLUTCH_DUTY_LIMIT)]

\* Stage 2.c.4
tension_partners(c, speed) ==
    [m \in Partners(c) |->
        run_until_stalled(speed * reel_in, "HOLD",
                          STALL_TENSION_CLUTCH_DUTY_LIMIT)]

\* a return to the angles read before tensioning
move_to_initial_angles ==
    [m \in Motors |->
        run_target(SPEED_MAX_ANGLE_PER_SEC,
                   Num(calibration_initial[m].val), "COAST")]

\* Stage 2.c.7
move_to_tensioned_calibration_origin ==
    [m \in Motors |->
        run_target(SPEED_MAX_ANGLE_PER_SEC,
                   Num(calibration_tensioned[m].val), "COAST")]

\* the final move with the motors left coasting at the target
travel_to_center_coast(speed) ==
    [m \in Motors |-> run_target(speed, travel_center[m].val, "COAST")]

\* Stage 3.2
travel_to_center(speed) ==
    [m \in Motors |-> run_target(speed, travel_center[m].val, "HOLD")]

\* wait(add_wait): the settle time alone
RelaxWaitShort(time, add_wait) == add_wait

\* wait(time): the reel-out time without the settle time
RelaxWaitNoSettle(time, add_wait) == time

\* relax_tension: the time the script waits after the four run_time calls
RelaxWait(time, add_wait) == time + add_wait

\* ------------------------------------------------------------------------
\* run_task_monitored(task): multitask(task, log_load(), race=True), where
\* task is multitask(cmds..., race=isRace)
Multitask(cmds, isRace) ==
    /\ cmd' = [m \in Motors |-> IF m \in DOMAIN cmds THEN cmds[m] ELSE cmd[m]]
    /\ mode' = [m \in Motors |->
                  IF m \in DOMAIN cmds THEN "running" ELSE mode[m]]
    /\ task' = [m \in Motors |->
                  IF m \in DOMAIN cmds THEN "running" ELSE "none"]
    /\ timeLeft' = [m \in Motors |->
                  IF m \in DOMAIN cmds THEN 0 ELSE timeLeft[m]]
    /\ race' = isRace
    /\ telemetry' = "running"

Step == ip' = ip + 1

\* an uncaught exception ends the script
Raise == ip' = Len(Script(program))

\* the motors of a statement list that are reached before the first one in
\* bad, all of them when none is in bad
Assigned(order, bad) ==
    {order[i] : i \in {j \in 1..Len(order) :
                          \A k \in 1..j : order[k] \notin bad}}

\* Stage 3.1: the order of the four center assignments
CenterOrder == <<"top_left", "bottom_right", "bottom_left", "top_right">>

\* travel_to_center: the order of the four run_target calls
TravelOrder == <<"top_left", "bottom_right", "top_right", "bottom_left">>

\* the motors whose center assignment raises: min or max is None
UnsetRange == {m \in Motors : ~travel_min[m].set \/ ~travel_max[m].set}

\* the motors whose run_target raises: target_angle is None
UnsetCenter == {m \in Motors : ~travel_center[m].set}

\* run_task_monitored(travel_to_center(speed)).  The four run_target calls
\* are made in the order of TravelOrder while the arguments of multitask
\* are built; a call with target_angle=None raises TypeError, the calls
\* before it made, and the script ends with the motors stopped.
RunTravelToCenter(speed) ==
    IF UnsetCenter = {}
    THEN Multitask(travel_to_center(speed), FALSE) /\ Step
    ELSE /\ cmd' = [m \in Motors |->
                      IF m \in Assigned(TravelOrder, UnsetCenter)
                      THEN travel_to_center(speed)[m] ELSE cmd[m]]
         /\ mode' = [m \in Motors |->
                      IF m \in Assigned(TravelOrder, UnsetCenter)
                      THEN "coast" ELSE mode[m]]
         /\ UNCHANGED <<task, timeLeft, race, telemetry>>
         /\ Raise
Enter(stage) == visited' = Append(visited, <<stage, corner>>)
Wrote(field, ms) ==
    writes' = [writes EXCEPT ![field] =
                 [m \in Motors |-> IF m \in ms THEN Append(@[m], <<pc, corner>>)
                                   ELSE @[m]]]

\* ------------------------------------------------------------------------
Init ==
    /\ program \in {"main", "relax"}
    /\ ip = 1
    /\ angle = [m \in Motors |-> 0]
    /\ mode = [m \in Motors |-> "coast"]
    /\ cmd = [m \in Motors |-> NoCmd]
    /\ timeLeft = [m \in Motors |-> 0]
    /\ waitLeft = 0
    /\ rested = -1
    /\ task = [m \in Motors |-> "none"]
    /\ race = FALSE
    /\ telemetry = "off"
    /\ travelled = 0
    /\ calibration_initial = [m \in Motors |-> None]
    /\ calibration_tensioned = [m \in Motors |-> None]
    /\ travel_min = [m \in Motors |-> None]
    /\ travel_max = [m \in Motors |-> None]
    /\ travel_center = [m \in Motors |-> NoneNum]
    /\ travel_left_neighbor = [m \in Motors |-> None]
    /\ travel_right_neighbor = [m \in Motors |-> None]
    /\ writes = [f \in Fields |-> [m \in Motors |-> <<>>]]
    /\ visited = <<>>
    /\ roles = [m \in Motors |-> <<>>]


\* ------------------------------------------------------------------------
\* The script's statements

\* Stage 1.1 (START): read the initial angles, start bring_under_tension()
StartTension ==
    /\ pc = "1.1"
    /\ calibration_initial' = [m \in Motors |-> Some(angle[m])]
    /\ Multitask(bring_under_tension(SPEED_MAX_ANGLE_PER_SEC_CALIBRATION),
                 TensionRace)
    /\ Step /\ Enter("TENSION")
    /\ UNCHANGED <<roles, rested, program, angle, travelled, waitLeft, calibration_tensioned,
                   travel_min, travel_max, travel_center,
                   travel_left_neighbor, travel_right_neighbor, writes>>

\* Stage 1.1 (END): the tensioned calibration origin
CaptureOrigin ==
    /\ pc = "1.1_end"
    /\ calibration_tensioned' = [m \in Motors |-> Some(angle[m])]
    /\ Wrote("calibration_tensioned", Motors)
    /\ Step
    /\ UNCHANGED <<roles, rested, program, waitLeft, visited, motorVars, calibration_initial,
                   travel_min, travel_max, travel_center,
                   travel_left_neighbor, travel_right_neighbor>>

\* relax_tension(), Stages 1.2, 2.c.6 and 2.c.8: four run_time calls with
\* wait=False, then wait(time + add_wait) begins
relax_tension(speed, time, add_wait) ==
    /\ cmd' = [m \in Motors |-> run_time(speed * reel_out, time, "COAST")]
    /\ mode' = [m \in Motors |-> "running"]
    /\ timeLeft' = [m \in Motors |-> time]
    /\ waitLeft' = RelaxWait(time, add_wait)
    /\ rested' = 0

RelaxIssue ==
    /\ pc \in {"1.2", "2.6", "2.8"}
    /\ relax_tension(SPEED_MAX_ANGLE_PER_SEC_CALIBRATION, RELAX_TIME,
                     RELAX_SETTLE_TIME)
    /\ Step /\ Enter("RELAX")
    /\ UNCHANGED <<roles, program, angle, task, race, telemetry, travelled, dataVars>>

\* wait() of relax_tension is over
RelaxReturn ==
    /\ pc \in {"1.2_wait", "2.6_wait", "2.8_wait", "call_wait"}
    /\ waitLeft = 0
    /\ Step
    /\ UNCHANGED <<roles, rested, program, waitLeft, visited, motorVars, dataVars>>

\* Stage 2.c.1: run_task_monitored(travel_to_<corner>_zero_position())
StartDrive ==
    /\ pc = "2.1"
    /\ Multitask(travel_to_zero_position(
                     corner, SPEED_MAX_ANGLE_PER_SEC_CALIBRATION),
                 ZeroPositionRace)
    /\ Step /\ Enter("DRIVE_TO_LIMIT")
    /\ roles' = [m \in Motors |->
                   Append(roles[m],
                          <<IF cmd'[m].speed > 0 THEN "reel_in" ELSE "reel_out",
                            corner>>)]
    /\ UNCHANGED <<rested, program, angle, travelled, waitLeft, dataVars>>

\* the zero position taken from the motor that ended the race
SaveMinOfWinner ==
    /\ pc = "2.2"
    /\ travel_min' =
           [travel_min EXCEPT
              ![Driven(corner)] =
                  Some(angle[CHOOSE m \in Motors : task[m] = "done"])]
    /\ Wrote("min", {Driven(corner)})
    /\ Step
    /\ UNCHANGED <<roles, rested, program, waitLeft, visited, motorVars, calibration_initial,
                   calibration_tensioned, travel_max, travel_center,
                   travel_left_neighbor, travel_right_neighbor>>

\* Stage 2.c.2: save the zero position of the driven corner
SaveMin ==
    /\ pc = "2.2"
    /\ travel_min' = [travel_min EXCEPT
                        ![Driven(corner)] = Some(angle[Driven(corner)])]
    /\ Wrote("min", {Driven(corner)})
    /\ Step
    /\ UNCHANGED <<roles, rested, program, waitLeft, visited, motorVars, calibration_initial,
                   calibration_tensioned, travel_max, travel_center,
                   travel_left_neighbor, travel_right_neighbor>>

\* Stage 2.c.3: <motor>.hold()
Hold ==
    /\ pc = "2.3"
    /\ cmd' = [cmd EXCEPT ![HoldTarget(corner)] = hold]
    /\ mode' = [mode EXCEPT ![HoldTarget(corner)] = "hold"]
    /\ timeLeft' = [timeLeft EXCEPT ![HoldTarget(corner)] = 0]
    /\ Step /\ Enter("HOLD")
    /\ UNCHANGED <<roles, rested, program, angle, task, race, telemetry, travelled, waitLeft,
                   dataVars>>

\* Stage 2.c.4: run_task_monitored(tension_<corner>_partners())
StartPartners ==
    /\ pc = "2.4"
    /\ Multitask(tension_partners(
                     corner, SPEED_MAX_ANGLE_PER_SEC_CALIBRATION),
                 PartnersRace)
    /\ Step /\ Enter("TENSION_PARTNERS")
    /\ roles' = [m \in Motors |->
                   IF task'[m] = "running"
                   THEN Append(roles[m], <<"partner", corner>>)
                   ELSE roles[m]]
    /\ UNCHANGED <<rested, program, angle, travelled, waitLeft, dataVars>>

\* Stage 2.c.5: save the travel ranges of the three partners
SaveRanges ==
    /\ pc = "2.5"
    /\ travel_max' = [travel_max EXCEPT
                        ![MaxTarget(corner)] = Some(angle[MaxTarget(corner)])]
    /\ travel_right_neighbor' =
           [travel_right_neighbor EXCEPT
              ![RightNeighborTarget(corner)] =
                  Some(angle[RightNeighborTarget(corner)])]
    /\ travel_left_neighbor' =
           [travel_left_neighbor EXCEPT
              ![LeftNeighborTarget(corner)] =
                  Some(angle[LeftNeighborTarget(corner)])]
    /\ writes' = [writes EXCEPT
           !["max"][MaxTarget(corner)] = Append(@, <<pc, corner>>),
           !["right_neighbor"][RightNeighborTarget(corner)] = Append(@, <<pc, corner>>),
           !["left_neighbor"][LeftNeighborTarget(corner)] = Append(@, <<pc, corner>>)]
    /\ Step
    /\ UNCHANGED <<roles, rested, program, waitLeft, visited, motorVars, calibration_initial,
                   calibration_tensioned, travel_min, travel_center>>

\* Stage 2.c.7: run_task_monitored(move_to_tensioned_calibration_origin())
StartReturn ==
    /\ pc = "2.7"
    /\ Multitask(move_to_tensioned_calibration_origin, FALSE)
    /\ Step /\ Enter("RETURN_TO_ORIGIN")
    /\ UNCHANGED <<roles, rested, program, angle, travelled, waitLeft, dataVars>>

\* Stage 3.1: the center of each travel range
\* an aggregation with hidden state: it also moves each min to the center
ComputeCenterMovingMin ==
    /\ pc = "3.1"
    /\ UnsetRange = {}
    /\ travel_center' =
           [m \in Motors |->
              [set |-> TRUE,
               val |-> Center(travel_min[m].val, travel_max[m].val)]]
    /\ travel_min' =
           [m \in Motors |->
              Some(TargetAngle(Center(travel_min[m].val, travel_max[m].val)))]
    /\ Wrote("center", Motors)
    /\ Step
    /\ Enter("AGGREGATE")
    /\ UNCHANGED <<roles, rested, program, waitLeft, motorVars, calibration_initial,
                   calibration_tensioned, travel_max,
                   travel_left_neighbor, travel_right_neighbor>>

\* The four assignments run in the order of CenterOrder.  None - int and
\* int - None raise TypeError: the script ends there, the assignments
\* before it done.
ComputeCenter ==
    /\ pc = "3.1"
    /\ travel_center' =
           [m \in Motors |->
              IF m \in Assigned(CenterOrder, UnsetRange)
              THEN [set |-> TRUE,
                    val |-> Center(travel_min[m].val, travel_max[m].val)]
              ELSE travel_center[m]]
    /\ Wrote("center", Assigned(CenterOrder, UnsetRange))
    /\ IF UnsetRange = {} THEN Step ELSE Raise
    /\ Enter("AGGREGATE")
    /\ UNCHANGED <<roles, rested, program, waitLeft, motorVars, calibration_initial,
                   calibration_tensioned, travel_min, travel_max,
                   travel_left_neighbor, travel_right_neighbor>>

\* Stage 3.2: run_task_monitored(travel_to_center())
StartTravelCenter ==
    /\ pc = "3.2"
    /\ RunTravelToCenter(SPEED_MAX_ANGLE_PER_SEC)
    /\ Enter("MOVE_TO_CENTER")
    /\ UNCHANGED <<roles, rested, program, angle, travelled, waitLeft, dataVars>>

\* a log_load that returns after its first wait: the telemetry task ends,
\* wins the race of run_task_monitored, and the stage task is cancelled
LogLoadReturns ==
    /\ telemetry # "off"
    /\ telemetry' = "off"
    /\ task' = [m \in Motors |->
                  IF task[m] = "running" THEN "cancelled" ELSE task[m]]
    /\ mode' = [m \in Motors |->
                  IF task[m] = "running" THEN "coast" ELSE mode[m]]
    /\ UNCHANGED <<roles, rested, program, ip, angle, cmd, timeLeft, race,
                   travelled, waitLeft, visited, dataVars>>

\* log_load: print the four loads, await wait(every_ms), and again, for ever
LogLoad ==
    /\ telemetry # "off"
    /\ telemetry' = IF telemetry = "running" THEN "waiting" ELSE "running"
    /\ UNCHANGED <<roles, rested, program, ip, angle, mode, cmd, timeLeft, task,
                   race, travelled, waitLeft, visited, dataVars>>

\* run_task with a time limit: it returns while motor tasks still run
StageReturnsOnTimeout ==
    /\ pc \in {"1.1_await", "2.1_await", "2.4_await", "2.7_await",
               "3.2_await", "call_await"}
    /\ \E m \in Motors : task[m] # "none"
    /\ telemetry' = "off"
    /\ Step
    /\ UNCHANGED <<roles, rested, program, angle, mode, cmd, timeLeft, task, race, travelled,
                   waitLeft, visited, dataVars>>

\* run_task returns: the stage's multitask is over and log_load is cancelled
StageReturns ==
    /\ pc \in {"1.1_await", "2.1_await", "2.4_await", "2.7_await",
               "3.2_await", "call_await"}
    /\ \E m \in Motors : task[m] # "none"
    /\ \A m \in Motors : task[m] # "running"
    /\ telemetry' = "off"
    /\ Step
    /\ UNCHANGED <<roles, rested, program, angle, mode, cmd, timeLeft, task, race, travelled,
                   waitLeft, visited, dataVars>>

\* ------------------------------------------------------------------------
\* The motors and the tasks awaiting them

\* The task of motor m ends.  In a race the combinator cancels the tasks
\* still running in the same scheduler pass, and their motors coast.
Complete(m) ==
    /\ mode' = [x \in Motors |->
                  IF x = m THEN StopMode(cmd[m].then)
                  ELSE IF race /\ task[x] = "running" THEN "coast"
                  ELSE mode[x]]
    /\ task' = [x \in Motors |->
                  IF x = m THEN "done"
                  ELSE IF race /\ task[x] = "running" THEN "cancelled"
                  ELSE task[x]]

\* a motor in run_until_stalled turns by one degree
MotorTurns(m) ==
    /\ task[m] = "running"
    /\ cmd[m].kind = "run_until_stalled"
    /\ travelled < MaxTravel
    /\ angle' = [angle EXCEPT ![m] = @ + Sign(cmd[m].speed)]
    /\ travelled' = travelled + 1
    /\ UNCHANGED <<roles, rested, program, ip, mode, cmd, timeLeft, task, race, telemetry,
                   waitLeft, visited, dataVars>>

\* a motor in run_until_stalled stalls: its duty reached the duty limit
MotorStalls(m) ==
    /\ task[m] = "running"
    /\ cmd[m].kind = "run_until_stalled"
    /\ Complete(m)
    /\ UNCHANGED <<roles, rested, program, ip, angle, cmd, timeLeft, race, telemetry,
                   travelled, waitLeft, visited, dataVars>>

\* a motor in run_target arrives at its target
TargetReached(m) ==
    /\ task[m] = "running"
    /\ cmd[m].kind = "run_target"
    /\ angle' = [angle EXCEPT ![m] = TargetAngle(cmd[m].target)]
    /\ Complete(m)
    /\ UNCHANGED <<roles, rested, program, ip, cmd, timeLeft, race, telemetry, travelled,
                   waitLeft, visited, dataVars>>

\* a motor turning on a timer or without an end
Turning(m) ==
    /\ mode[m] = "running"
    /\ \/ cmd[m].kind = "run"
       \/ cmd[m].kind = "run_time" /\ timeLeft[m] > 0

Max0(x) == IF x < 0 THEN 0 ELSE x

\* Tick milliseconds pass while the script waits
TimePasses ==
    /\ \/ waitLeft > 0
       \/ \E m \in Motors : cmd[m].kind = "run_time" /\ Turning(m)
    /\ waitLeft' = Max0(waitLeft - Tick)
    /\ angle' = [m \in Motors |->
                   IF Turning(m)
                   THEN angle[m] + (cmd[m].speed * Tick) \div 1000
                   ELSE angle[m]]
    /\ timeLeft' = [m \in Motors |-> Max0(timeLeft[m] - Tick)]
    /\ rested' = IF rested < 0 THEN rested
                 ELSE IF \E m \in Motors : timeLeft[m] > 0 THEN 0
                 ELSE IF rested + Tick > RELAX_SETTLE_TIME
                      THEN RELAX_SETTLE_TIME
                 ELSE rested + Tick
    /\ mode' = [m \in Motors |->
                  IF Turning(m) /\ cmd[m].kind = "run_time"
                     /\ timeLeft[m] - Tick <= 0
                  THEN StopMode(cmd[m].then)
                  ELSE mode[m]]
    /\ UNCHANGED <<roles, program, ip, cmd, task, race, telemetry, travelled,
                   visited, dataVars>>

\* ------------------------------------------------------------------------
\* tasks/relax.py

\* Reel out: motor_tl.run(300) ... motor_bl.run(-300), then wait(2000) begins
RelaxTaskRun ==
    /\ pc = "t.run"
    /\ cmd' = [m \in Motors |->
                 IF m \in {"top_left", "bottom_right"} THEN run(300)
                 ELSE run(-300)]
    /\ mode' = [m \in Motors |-> "running"]
    /\ waitLeft' = 2000
    /\ Step
    /\ UNCHANGED <<roles, rested, program, angle, timeLeft, task, race, telemetry, travelled,
                   visited, dataVars>>

\* wait(2000) is over: print("Tension Array Relaxed")
RelaxTaskEnd ==
    /\ pc = "t.wait"
    /\ waitLeft = 0
    /\ Step
    /\ UNCHANGED <<roles, rested, program, waitLeft, visited, motorVars, dataVars>>

\* ------------------------------------------------------------------------
Next ==
    \/ StartTension
    \/ CaptureOrigin
    \/ RelaxIssue
    \/ RelaxReturn
    \/ StartDrive
    \/ SaveMin
    \/ Hold
    \/ StartPartners
    \/ SaveRanges
    \/ StartReturn
    \/ ComputeCenter
    \/ StartTravelCenter
    \/ StageReturns
    \/ \E m \in Motors : MotorTurns(m)
    \/ \E m \in Motors : MotorStalls(m)
    \/ \E m \in Motors : TargetReached(m)
    \/ TimePasses
    \/ RelaxTaskRun
    \/ RelaxTaskEnd

Spec == Init /\ [][Next]_vars

\* the statements of the script: the interpreter runs the next one
ScriptStep ==
    \/ StartTension
    \/ CaptureOrigin
    \/ RelaxIssue
    \/ RelaxReturn
    \/ StartDrive
    \/ SaveMin
    \/ Hold
    \/ StartPartners
    \/ SaveRanges
    \/ StartReturn
    \/ ComputeCenter
    \/ StartTravelCenter
    \/ StageReturns
    \/ RelaxTaskRun
    \/ RelaxTaskEnd

\* The script keeps running and time keeps passing; fair actuators: a motor
\* in run_until_stalled stalls in the end, a motor in run_target arrives.
Fairness ==
    /\ WF_vars(ScriptStep)
    /\ WF_vars(TimePasses)
    /\ \A m \in Motors : WF_vars(MotorStalls(m))
    /\ \A m \in Motors : WF_vars(TargetReached(m))

SpecLive == Init /\ [][Next]_vars /\ Fairness

\* the script with the steps of the telemetry task told apart
NextMonitored ==
    \/ Next
    \/ LogLoad

SpecMonitored == Init /\ [][NextMonitored]_vars

\* ------------------------------------------------------------------------
\* The stage functions and the Stage 3 statements applied to inputs of the
\* caller's choice: a speed argument, and module-level variables that are
\* None or hold an angle.

\* the speed arguments tried: each ceiling, and one above it
SpeedArgs ==
    {SPEED_MAX_ANGLE_PER_SEC_CALIBRATION,
     SPEED_MAX_ANGLE_PER_SEC_CALIBRATION + 1,
     SPEED_MAX_ANGLE_PER_SEC, SPEED_MAX_ANGLE_PER_SEC + 1}

InitCalls ==
    /\ program \in {"stage3", "call", "call_relax"}
    /\ ip = 1
    /\ angle = [m \in Motors |-> 0]
    /\ mode = [m \in Motors |-> "coast"]
    /\ cmd = [m \in Motors |-> NoCmd]
    /\ timeLeft = [m \in Motors |-> 0]
    /\ waitLeft = 0
    /\ rested = -1
    /\ task = [m \in Motors |-> "none"]
    /\ race = FALSE
    /\ telemetry = "off"
    /\ travelled = 0
    /\ calibration_initial = [m \in Motors |-> None]
    /\ calibration_tensioned = [m \in Motors |-> None]
    /\ travel_min \in [Motors -> {None, Some(-1)}]
    /\ travel_max \in [Motors -> {None, Some(0), Some(1)}]
    /\ \/ program = "stage3" /\ travel_center = [m \in Motors |-> NoneNum]
       \/ /\ program \in {"call", "call_relax"}
          /\ travel_min = [m \in Motors |-> None]
          /\ travel_max = [m \in Motors |-> None]
          /\ travel_center = [m \in Motors |-> NoneNum]
       \/ /\ program = "call"
          /\ UnsetRange = {}
          /\ travel_center =
                 [m \in Motors |->
                    [set |-> TRUE,
                     val |-> Center(travel_min[m].val, travel_max[m].val)]]
    /\ travel_left_neighbor = [m \in Motors |-> None]
    /\ travel_right_neighbor = [m \in Motors |-> None]
    /\ writes = [f \in Fields |-> [m \in Motors |-> <<>>]]
    /\ visited = <<>>
    /\ roles = [m \in Motors |-> <<>>]

\* run_task_monitored(f(speed)) for one of the stage functions built on
\* run_until_stalled
CallStage ==
    /\ pc = "call"
    /\ \E speed \in SpeedArgs, c \in 1..4 :
          \/ Multitask(bring_under_tension(speed), TensionRace)
          \/ Multitask(travel_to_zero_position(c, speed), ZeroPositionRace)
          \/ Multitask(tension_partners(c, speed), PartnersRace)
    /\ Step
    /\ UNCHANGED <<roles, rested, program, angle, travelled, waitLeft, visited,
                   dataVars>>

\* run_task_monitored(travel_to_center(speed))
CallTravelCenter ==
    /\ pc = "call"
    /\ \E speed \in SpeedArgs : RunTravelToCenter(speed)
    /\ UNCHANGED <<roles, rested, program, angle, travelled, waitLeft, visited,
                   dataVars>>

\* relax_tension(speed)
CallRelax ==
    /\ pc = "call_relax"
    /\ \E speed \in SpeedArgs :
          relax_tension(speed, RELAX_TIME, RELAX_SETTLE_TIME)
    /\ Step
    /\ UNCHANGED <<roles, program, angle, task, race, telemetry, travelled,
                   visited, dataVars>>

NextCalls ==
    \/ ComputeCenter
    \/ StartTravelCenter
    \/ CallStage
    \/ CallTravelCenter
    \/ CallRelax
    \/ RelaxReturn
    \/ StageReturns
    \/ \E m \in Motors : MotorTurns(m)
    \/ \E m \in Motors : MotorStalls(m)
    \/ \E m \in Motors : TargetReached(m)
    \/ TimePasses

SpecCalls == InitCalls /\ [][NextCalls]_vars

\* ========================================================================
\* Properties

\* the shape of the state
TypeOK ==
    /\ program \in {"main", "relax"}
    /\ ip \in 1..Len(Script(program))
    /\ \A m \in Motors : mode[m] \in {"coast", "hold", "running"}
    /\ \A m \in Motors : task[m] \in {"none", "running", "done", "cancelled"}
    /\ travelled \in 0..MaxTravel
    /\ waitLeft >= 0

\* the statements after the four corner iterations
AfterPass == program = "main" /\ pc \in {"3.1", "3.2", "3.2_await", "end"}

\* the corner diagonally opposite: top left is strung to bottom right, top
\* right to bottom left
Diagonal(m) ==
    CASE m = "top_left" -> "bottom_right"
      [] m = "bottom_right" -> "top_left"
      [] m = "top_right" -> "bottom_left"
      [] m = "bottom_left" -> "top_right"

\* the steps of the tensioning stage and of the four corner iterations
CalibrationSteps == {"1.1", "1.2", "2.1", "2.3", "2.4", "2.6", "2.7", "2.8"}

Abs(x) == IF x < 0 THEN -x ELSE x

SpeedCeiling(c) ==
    IF c.step \in CalibrationSteps
    THEN SPEED_MAX_ANGLE_PER_SEC_CALIBRATION
    ELSE SPEED_MAX_ANGLE_PER_SEC

\* C1: every speed handed to a motor command is within the ceiling of the
\* stage that issued it: the calibration ceiling for a command of the
\* tensioning stage or of a corner iteration (relax and return to origin
\* included), the operating ceiling for any other command.
C1_StageSpeedCeiling ==
    \A m \in Motors :
        cmd[m].kind # "none" => Abs(cmd[m].speed) <= SpeedCeiling(cmd[m])

\* C2: in each corner iteration the hold command of Stage 2.c.3 goes to the
\* motor driven in Stage 2.c.1, and to no other, so that the driven motor is
\* the one under a hold command throughout the tension-partners stage.
C2_HoldGoesToDriven ==
    (program = "main" /\ pc \in {"2.4", "2.4_await"}) =>
        \A m \in Motors :
            (cmd[m].kind = "hold" /\ cmd[m].corner = corner)
                <=> m = Driven(corner)

\* the corners in which motor m had the part r
CornersAs(m, r) ==
    {c \in 1..4 : \E i \in 1..Len(roles[m]) : roles[m][i] = <<r, c>>}

\* the corners whose driven motor is neither m nor its diagonal partner
AdjacentCorners(m) ==
    {c \in 1..4 : Driven(c) # m /\ Driven(c) # Diagonal(m)}

\* C3: after the four corner iterations every motor was the reeled-in
\* corner of exactly one iteration and a partner in the three others, and
\* each of its min, max, left_neighbor and right_neighbor was written exactly
\* once: min in its own iteration, max in the iteration of its diagonal
\* partner, the two neighbors in the two iterations of the adjacent corners.
C3_EveryFieldWrittenOnce ==
    AfterPass =>
        \A m \in Motors :
            /\ travel_min[m].set /\ travel_max[m].set
            /\ travel_left_neighbor[m].set /\ travel_right_neighbor[m].set
            /\ Cardinality(CornersAs(m, "reel_in")) = 1
            /\ CornersAs(m, "partner") = (1..4) \ CornersAs(m, "reel_in")
            /\ Len(roles[m]) = 7
            /\ \E c \in CornersAs(m, "reel_in") :
                  writes["min"][m] = << <<"2.2", c>> >>
            /\ \E c \in 1..4 :
                  /\ Diagonal(m) \in {x \in Motors : c \in CornersAs(x, "reel_in")}
                  /\ writes["max"][m] = << <<"2.5", c>> >>
            /\ \E c, d \in AdjacentCorners(m) :
                  /\ c # d
                  /\ writes["left_neighbor"][m] = << <<"2.5", c>> >>
                  /\ writes["right_neighbor"][m] = << <<"2.5", d>> >>

\* C3 witness: the end of the run, with the bottom left motor's four fields
\* holding four different angles
C3_Witness ==
    /\ program = "main" /\ pc = "end"
    /\ Cardinality({travel_min["bottom_left"].val,
                    travel_max["bottom_left"].val,
                    travel_left_neighbor["bottom_left"].val,
                    travel_right_neighbor["bottom_left"].val}) >= 3

\* C4: after the four corner iterations min < max for every motor.
C4_MinBelowMax ==
    AfterPass => \A m \in Motors : travel_min[m].val < travel_max[m].val

\* the number of entries of the stage log with the given name
Count(stage) ==
    Cardinality({i \in 1..Len(visited) : visited[i][1] = stage})

\* C5: a motor's center is written once, by Stage 3.1, after all four corner
\* iterations and their last relax, and it is exactly the midpoint of that
\* motor's min and max: 2 * center = min + max, odd ranges included.
C5_CenterIsExactMidpoint ==
    \A m \in Motors :
        /\ travel_center[m].set <=>
               (program = "main" /\ pc \in {"3.2", "3.2_await", "end"})
        /\ travel_center[m].set =>
               /\ writes["center"][m] = << <<"3.1", 0>> >>
               /\ Count("RELAX") = 9 /\ Count("RETURN_TO_ORIGIN") = 4
               /\ travel_center[m].val.den \in {1, 2}
               /\ 2 * travel_center[m].val.num =
                      (travel_min[m].val + travel_max[m].val)
                          * travel_center[m].val.den

\* C5 witness: the run is over, one motor's range is odd (its center has a
\* fractional half) and another motor's range is even
C5_Witness ==
    /\ program = "main" /\ pc = "end"
    /\ \E m, n \in Motors :
          /\ (travel_max[m].val - travel_min[m].val) % 2 = 1
          /\ travel_center[m].val.den = 2
          /\ (travel_max[n].val - travel_min[n].val) % 2 = 0

\* C6: whenever a neighbor field of a motor is set together with that
\* motor's min and max, the neighbor angle lies within [min, max].
C6_NeighborsWithinRange ==
    \A m \in Motors :
        (travel_min[m].set /\ travel_max[m].set) =>
            /\ travel_left_neighbor[m].set =>
                  /\ travel_min[m].val <= travel_left_neighbor[m].val
                  /\ travel_left_neighbor[m].val <= travel_max[m].val
            /\ travel_right_neighbor[m].set =>
                  /\ travel_min[m].val <= travel_right_neighbor[m].val
                  /\ travel_right_neighbor[m].val <= travel_max[m].val

\* C7: in a drive-to-limit stage no task runs on once one task has met its
\* stop condition: from then on, and when the stage has returned, exactly
\* one task has finished, the three others are cancelled and no motor of the
\* stage is still turning.
C7_RaceCancelsSiblings ==
    (program = "main" /\ pc \in {"2.1_await", "2.2"}
       /\ (pc = "2.2" \/ \E m \in Motors : task[m] = "done")) =>
        /\ Cardinality({m \in Motors : task[m] = "done"}) = 1
        /\ Cardinality({m \in Motors : task[m] = "cancelled"}) = 3
        /\ \A m \in Motors : mode[m] # "running"

\* C7 witness: a drive-to-limit stage has returned after one of the motors
\* reeling out stalled first, the driven motor's task being cancelled
C7_Witness ==
    /\ program = "main" /\ pc = "2.2"
    /\ task[Driven(corner)] = "cancelled"
    /\ angle[Driven(corner)] # angle[Diagonal(Driven(corner))]

\* C8: whenever a command is issued to any motor, every motor is at rest
\* (held or coasting): no command of an earlier stage is still active, the
\* four non-blocking run_time commands of a relax stage included.
C8_CommandsOnlyAtRest ==
    [][cmd' # cmd => \A m \in Motors : mode[m] \in {"hold", "coast"}]_vars

\* C8 witness: a drive-to-limit stage is about to issue its commands after
\* a relax stage whose run_time commands have all ended in coasting
C8_Witness ==
    /\ program = "main" /\ pc = "2.1" /\ corner = 2
    /\ \A m \in Motors :
          /\ cmd[m].kind = "run_time" /\ cmd[m].step = "2.8"
          /\ mode[m] = "coast" /\ timeLeft[m] = 0

IterationStages(c) ==
    << <<"DRIVE_TO_LIMIT", c>>, <<"HOLD", c>>, <<"TENSION_PARTNERS", c>>,
       <<"RELAX", c>>, <<"RETURN_TO_ORIGIN", c>>, <<"RELAX", c>> >>

\* the stages of a run, in order
StageOrder ==
    << <<"TENSION", 0>>, <<"RELAX", 0>> >>
    \o IterationStages(1) \o IterationStages(2)
    \o IterationStages(3) \o IterationStages(4)
    \o << <<"AGGREGATE", 0>>, <<"MOVE_TO_CENTER", 0>> >>

\* C9: the stages are entered in this order, none skipped or repeated:
\* tensioning, relax, then for each of the four corners drive-to-limit, hold,
\* tension-partners, relax, return-to-origin, relax, then the center
\* computation, then the final move.
C9_StagesInOrder ==
    program = "main" =>
        /\ Len(visited) <= Len(StageOrder)
        /\ visited = SubSeq(StageOrder, 1, Len(visited))
        /\ pc = "end" => visited = StageOrder
        /\ pc = "2.1" => Len(visited) = 2 + 6 * (corner - 1)
        /\ pc = "3.1" => Len(visited) = 26

\* C9 witness: the run is over and all 28 stages were entered
C9_Witness ==
    program = "main" /\ pc = "end" /\ Len(visited) = 28 /\ travelled > 0

\* C10: the tensioning stage commands all four motors to reel in under the
\* tension duty limit; a motor that stalls holds while the others go on and
\* no task is cancelled; the stage returns only when all four have stalled;
\* nothing is written before; and CalibrationOrigin is each motor's angle
\* as read after the return, before any further command.
C10_TensionJoinsAllFour ==
    program = "main" =>
        /\ pc \in {"1.1_await", "1.1_end", "1.2"} =>
              \A m \in Motors :
                  /\ cmd[m].kind = "run_until_stalled" /\ cmd[m].step = "1.1"
                  /\ cmd[m].speed > 0
                  /\ cmd[m].duty = STALL_TENSION_CLUTCH_DUTY_LIMIT
                  /\ task[m] \in {"running", "done"}
                  /\ task[m] = "done" => mode[m] = "hold"
        /\ pc \in {"1.1_end", "1.2"} =>
              \A m \in Motors : task[m] = "done" /\ mode[m] = "hold"
        /\ pc \in {"1.1", "1.1_await", "1.1_end"} =>
              \A m \in Motors :
                  /\ ~calibration_tensioned[m].set
                  /\ ~travel_min[m].set /\ ~travel_max[m].set
        /\ pc = "1.2" =>
              \A m \in Motors : calibration_tensioned[m] = Some(angle[m])

\* C10 witness: the origin is captured with one motor having stalled at
\* once and held while another went on reeling in
C10_Witness ==
    /\ program = "main" /\ pc = "1.2"
    /\ calibration_tensioned["top_left"].val = 0
    /\ calibration_tensioned["bottom_left"].val = 2

\* the center computation or the final move was applied to a state in
\* which some min or max is None
AppliedUncalibrated ==
    /\ UnsetRange # {}
    /\ \/ program = "stage3" /\ ip > 1
       \/ program = "call" /\ pc \in {"NotCalibrated", "TypeError"}

\* C11: the center computation and the move to center, applied while some
\* min or max is unset, end in the designated "not calibrated" failure, with
\* no center written and no run_target command issued.
C11_UnsetEndsNotCalibrated ==
    /\ UnsetRange # {} =>
          /\ \A m \in Motors : ~travel_center[m].set
          /\ \A m \in Motors : cmd[m].kind # "run_target"
    /\ AppliedUncalibrated => pc = "NotCalibrated"

\* the four commands of the final move: one run_target per motor, to the
\* motor's own center, within the operating ceiling, HOLD, join-all
FinalMoveCommands ==
    /\ ~race
    /\ \A m \in Motors :
          /\ task[m] # "none"
          /\ cmd[m].kind = "run_target"
          /\ cmd[m].step = "3.2"
          /\ travel_center[m].set
          /\ cmd[m].target = travel_center[m].val
          /\ Abs(cmd[m].speed) <= SPEED_MAX_ANGLE_PER_SEC
          /\ cmd[m].then = "HOLD"

C13_OverCeilingSpeedRejected ==
    \A m \in Motors :
       /\ cmd[m].kind \in {"run_until_stalled", "run_time"}
             => Abs(cmd[m].speed) <= SPEED_MAX_ANGLE_PER_SEC_CALIBRATION
       /\ cmd[m].kind = "run_target"
             => Abs(cmd[m].speed) <= SPEED_MAX_ANGLE_PER_SEC

\* C14: the center computation applied again to the same fully populated
\* min/max values leaves the four centers as they are, changes no min, max,
\* neighbor or origin field, and issues no motor command.
C14_AggregationIdempotent ==
    [][(pc = "3.1" /\ ip' # ip /\ UnsetRange = {} /\ UnsetCenter = {})
          => /\ travel_center' = travel_center
             /\ \A m \in Motors :
                   travel_center'[m].val =
                      Center(travel_min[m].val, travel_max[m].val)
             /\ UNCHANGED <<travel_min, travel_max, travel_left_neighbor,
                            travel_right_neighbor, calibration_initial,
                            calibration_tensioned>>
             /\ UNCHANGED <<cmd, mode, task, angle>>]_vars

\* the computation has run twice on populated values, one range being odd
C14_Witness ==
    /\ program = "stage3" /\ ip = 3
    /\ UnsetRange = {}
    /\ \A m \in Motors :
          /\ Len(writes["center"][m]) = 2
          /\ travel_center[m].set
          /\ cmd[m].kind = "none"
    /\ \E m \in Motors : travel_center[m].val.den = 2
    /\ \E m \in Motors : travel_center[m].val.den = 1

\* the commands of the drive-to-limit stage of the current iteration
DriveCommands ==
    /\ Cardinality({m \in Motors : cmd[m].speed > 0}) = 1
    /\ \A m \in Motors :
          /\ cmd[m].kind = "run_until_stalled"
          /\ cmd[m].step = "2.1" /\ cmd[m].corner = corner
          /\ cmd[m].speed =
                IF m = Driven(corner)
                THEN SPEED_MAX_ANGLE_PER_SEC_CALIBRATION
                ELSE -SPEED_MAX_ANGLE_PER_SEC_CALIBRATION
          /\ cmd[m].duty = STALL_COLLISION_CLUTCH_DUTY_LIMIT

\* C15: in every drive-to-limit stage the driven corner alone reels in and
\* the other three reel out, all at the calibration speed under the
\* collision duty limit (lower than the tension duty limit), in race mode;
\* the min stored next is the driven corner's angle after the stage has
\* returned and before the hold command.
C15_DriveToLimitCommands ==
    /\ STALL_COLLISION_CLUTCH_DUTY_LIMIT < STALL_TENSION_CLUTCH_DUTY_LIMIT
    /\ pc \in {"2.1_await", "2.2", "2.3"} => DriveCommands /\ race
    /\ pc = "2.1_await" => \A m \in Motors : task[m] # "none"
    /\ pc = "2.2" => telemetry = "off" /\ \A m \in Motors : task[m] # "running"
    /\ pc = "2.3" =>
          /\ travel_min[Driven(corner)] = Some(angle[Driven(corner)])
          /\ writes["min"][Driven(corner)] = << <<"2.2", corner>> >>
          /\ \A m \in Motors : cmd[m].kind # "hold"

\* the min of bottom_left has been stored after its race, before the hold
C15_Witness ==
    /\ pc = "2.3" /\ corner = 3
    /\ DriveCommands
    /\ task["bottom_left"] = "done"
    /\ travel_min["bottom_left"] = Some(angle["bottom_left"])
    /\ travelled > 0

\* C16 (as stated): the race of a drive-to-limit stage is always ended by
\* the driven corner, so its min is the angle at which it stalled itself.
C16_DrivenCornerEndsRace ==
    pc \in {"2.2", "2.3"} =>
       /\ task[Driven(corner)] = "done"
       /\ pc = "2.3" =>
             travel_min[Driven(corner)] = Some(angle[Driven(corner)])

\* C16 (amended): the race is ended by the one motor that stalls first,
\* the driven corner or a motor reeling out; the other three are cut short
\* and coast; min is the driven corner's own angle, unchanged since the
\* race ended, which is its stall angle only when it ended the race itself.
C16_MinIsDrivenAngleAtRaceEnd ==
    /\ [](pc \in {"2.2", "2.3"} =>
            /\ Cardinality({m \in Motors : task[m] = "done"}) = 1
            /\ \A m \in Motors : task[m] \in {"done", "cancelled"}
            /\ \A m \in Motors :
                  cmd[m].step = "2.1" =>
                     mode[m] = IF task[m] = "done" THEN "hold" ELSE "coast"
            /\ pc = "2.3" =>
                  travel_min[Driven(corner)] = Some(angle[Driven(corner)]))
    /\ [][(\/ pc = "2.2"
           \/ pc = "2.1_await" /\ \A m \in Motors : task[m] # "running")
             => angle' = angle]_vars

\* a motor reeling out ended the race; min is the angle of the driven
\* corner, cut short while still turning
C16_Witness ==
    /\ pc = "2.3"
    /\ task[Driven(corner)] = "cancelled"
    /\ mode[Driven(corner)] = "coast"
    /\ travel_min[Driven(corner)] = Some(angle[Driven(corner)])
    /\ \E m \in Motors :
          /\ task[m] = "done" /\ cmd[m].speed < 0
          /\ angle[m] # angle[Driven(corner)]

\* the motors holding a command of the tension-partners stage of the
\* current iteration
Tensioned == {m \in Motors : cmd[m].step = "2.4" /\ cmd[m].corner = corner}

\* C17: the tension-partners stage commands exactly the three motors other
\* than the driven corner, each reeling in at the calibration speed under
\* the tension duty limit, and returns only when all three have stalled.
C17_PartnersJoinAll ==
    pc \in {"2.4_await", "2.5"} =>
       /\ Tensioned = Motors \ {Driven(corner)}
       /\ ~race
       /\ task[Driven(corner)] = "none"
       /\ \A m \in Tensioned :
             /\ cmd[m].kind = "run_until_stalled"
             /\ cmd[m].speed = SPEED_MAX_ANGLE_PER_SEC_CALIBRATION
             /\ cmd[m].duty = STALL_TENSION_CLUTCH_DUTY_LIMIT
             /\ task[m] \in {"running", "done"}
             /\ pc = "2.5" => task[m] = "done" /\ mode[m] = "hold"

\* the three partners of bottom_left have all stalled and are held
C17_Witness ==
    /\ pc = "2.5" /\ corner = 3
    /\ Tensioned = {"top_left", "top_right", "bottom_right"}
    /\ \A m \in Tensioned : task[m] = "done"
    /\ cmd["bottom_left"].step = "2.1"
    /\ \E m \in Tensioned : angle[m] # angle["bottom_left"]

\* the motors next to m: neither m nor its diagonal partner
Adjacent(m) == Motors \ {m, Diagonal(m)}

\* the fields of motor m that iteration c wrote
WrittenIn(m, c) ==
    {f \in Fields : \E i \in 1..Len(writes[f][m]) : writes[f][m][i][2] = c}

\* C18: the statements after the tension-partners stage of the iteration
\* driving X write the angle of X's diagonal partner to that motor's max,
\* and to no other max or min; the angle of each adjacent corner goes to one
\* neighbor field of that corner; X's fields other than min are not written
\* in the iteration.
C18_RangesSavedByPosition ==
    /\ [][(pc = "2.5" /\ ip' # ip) =>
            LET X == Driven(corner)
                D == Diagonal(X)
            IN /\ travel_max' = [travel_max EXCEPT ![D] = Some(angle[D])]
               /\ travel_min' = travel_min
               /\ travel_center' = travel_center
               /\ \A m \in {X, D} :
                     /\ travel_left_neighbor'[m] = travel_left_neighbor[m]
                     /\ travel_right_neighbor'[m] = travel_right_neighbor[m]
               /\ \A m \in Adjacent(X) :
                     \/ /\ travel_left_neighbor'[m] = Some(angle[m])
                        /\ ~travel_left_neighbor[m].set
                        /\ travel_right_neighbor'[m] = travel_right_neighbor[m]
                     \/ /\ travel_right_neighbor'[m] = Some(angle[m])
                        /\ ~travel_right_neighbor[m].set
                        /\ travel_left_neighbor'[m] = travel_left_neighbor[m]
         ]_vars
    /\ [](\A c \in 1..4 :
            /\ WrittenIn(Driven(c), c) \subseteq {"min"}
            /\ WrittenIn(Diagonal(Driven(c)), c) \subseteq {"max"}
            /\ \A m \in Adjacent(Driven(c)) :
                  WrittenIn(m, c) \in {{}, {"left_neighbor"},
                                       {"right_neighbor"}})

\* the ranges of the bottom_left iteration have been saved: top_right has its
\* max, top_left and bottom_right a neighbor value each
C18_Witness ==
    /\ pc = "2.6" /\ corner = 3
    /\ WrittenIn("top_right", 3) = {"max"}
    /\ WrittenIn("bottom_left", 3) = {"min"}
    /\ WrittenIn("top_left", 3) = {"right_neighbor"}
    /\ WrittenIn("bottom_right", 3) = {"left_neighbor"}
    /\ travel_max["top_right"] = Some(angle["top_right"])

\* the steps at which relax_tension() is called
RelaxSteps == {"1.2", "2.6", "2.8"}

\* C19: every relax stage commands all four motors at once to reel out at
\* the calibration speed for RELAX_TIME, then COAST, and waits RELAX_TIME +
\* RELAX_SETTLE_TIME; a run_until_stalled command is issued no sooner than
\* RELAX_SETTLE_TIME after the reel-out of the relax stage before it ended.
C19_SettleBeforeStallSensing ==
    /\ [][(pc \in RelaxSteps /\ ip' # ip) =>
            /\ \A m \in Motors :
                  /\ cmd'[m].kind = "run_time"
                  /\ cmd'[m].speed = -SPEED_MAX_ANGLE_PER_SEC_CALIBRATION
                  /\ cmd'[m].time = RELAX_TIME
                  /\ cmd'[m].then = "COAST"
                  /\ timeLeft'[m] = RELAX_TIME
                  /\ mode'[m] = "running"
            /\ waitLeft' = RELAX_TIME + RELAX_SETTLE_TIME
            /\ pc' \notin RelaxSteps
         ]_vars
    /\ [][(\E m \in Motors :
              cmd'[m] # cmd[m] /\ cmd'[m].kind = "run_until_stalled")
            => /\ rested = -1 \/ rested >= RELAX_SETTLE_TIME
               /\ \A m \in Motors : timeLeft[m] = 0 /\ mode[m] # "running"
         ]_vars
    /\ [](pc \in {"1.2_wait", "2.6_wait", "2.8_wait"} =>
            \A m \in Motors :
               /\ cmd[m].kind = "run_time"
               /\ timeLeft[m] > 0 => waitLeft = timeLeft[m] + RELAX_SETTLE_TIME
               /\ timeLeft[m] = 0 => mode[m] = "coast")

\* the drive-to-limit stage of the first iteration has started, the settle
\* time after the reel-out of Stage 1.2 having passed
C19_Witness ==
    /\ pc = "2.1_await" /\ corner = 1
    /\ rested = RELAX_SETTLE_TIME
    /\ \A m \in Motors :
          cmd[m].kind = "run_until_stalled" /\ task[m] = "running"

\* C20: every return-to-origin stage issues four run_target commands,
\* join-all, each to the motor's own tensioned calibration origin; the
\* origin is written once, right after tensioning, and no later stage
\* changes it, so the four return-to-origin stages have the same targets.
C20_ReturnTargetsAreTheOrigin ==
    /\ [](/\ pc = "2.7_await" =>
               /\ ~race
               /\ \A m \in Motors :
                     /\ task[m] # "none"
                     /\ cmd[m].kind = "run_target"
                     /\ cmd[m].step = "2.7" /\ cmd[m].corner = corner
          /\ \A m \in Motors :
                /\ cmd[m].step = "2.7" =>
                      /\ calibration_tensioned[m].set
                      /\ cmd[m].target = Num(calibration_tensioned[m].val)
                /\ writes["calibration_tensioned"][m] =
                      IF calibration_tensioned[m].set
                      THEN << <<"1.1_end", 0>> >> ELSE << >>
          /\ pc = "1.2" =>
                \A m \in Motors :
                   /\ calibration_tensioned[m] = Some(angle[m])
                   /\ cmd[m].step = "1.1" /\ task[m] = "done")
    /\ [][calibration_tensioned' # calibration_tensioned
             => pc = "1.1_end" /\ pc' = "1.2"]_vars

\* the fourth return to origin is under way, to an origin that tensioning
\* moved away from the initial angle, from an angle that is not the origin
C20_Witness ==
    /\ pc = "2.7_await" /\ corner = 4
    /\ \A m \in Motors :
          /\ cmd[m].kind = "run_target"
          /\ cmd[m].target = Num(calibration_tensioned[m].val)
    /\ \E m \in Motors : calibration_tensioned[m] # calibration_initial[m]
    /\ \E m \in Motors :
          task[m] = "running" /\ angle[m] # calibration_tensioned[m].val

\* the degrees a relax stage reels out: RELAX_TIME at the calibration speed
RelaxDisplacement ==
    (SPEED_MAX_ANGLE_PER_SEC_CALIBRATION * RELAX_TIME) \div 1000

\* C21: at the start of the drive-to-limit stage of every corner iteration
\* each motor is at its calibration origin minus the relax displacement,
\* whichever corners were calibrated before and whatever angles they reached.
C21_IterationsStartFromOrigin ==
    [](pc = "2.1" =>
         \A m \in Motors :
            /\ calibration_tensioned[m].set
            /\ angle[m] = calibration_tensioned[m].val - RelaxDisplacement
            /\ mode[m] = "coast")

\* the fourth iteration is about to start from the origin, an earlier
\* iteration having moved a motor away from where it started
C21_Witness ==
    /\ pc = "2.1" /\ corner = 4
    /\ \A m \in Motors :
          angle[m] = calibration_tensioned[m].val - RelaxDisplacement
    /\ \E m \in Motors :
          /\ travel_min[m].set
          /\ travel_min[m].val # calibration_tensioned[m].val - RelaxDisplacement
    /\ \E m \in Motors :
          /\ travel_max[m].set
          /\ travel_max[m].val # calibration_tensioned[m].val - RelaxDisplacement

\* the place of each statement in main.py
PosTable ==
    [s \in {MainScript[i] : i \in 1..Len(MainScript)} |->
        CHOOSE i \in 1..Len(MainScript) : MainScript[i] = s]

Pos(step, c) == PosTable[At(step, c)]

\* the script is past that statement
Past(step, c) == program = "main" /\ ip > Pos(step, c)

\* the iteration in which motor m is the driven corner
CornerOf(m) == CHOOSE c \in 1..4 : Driven(c) = m

\* field f of the travel profile of motor m
Profile(f, m) ==
    CASE f = "min" -> travel_min[m]
      [] f = "max" -> travel_max[m]
      [] f = "center" -> travel_center[m]
      [] f = "left_neighbor" -> travel_left_neighbor[m]
      [] f = "right_neighbor" -> travel_right_neighbor[m]

\* iteration c has entered the stage, the k-th of the run's stages in its
\* first iteration and six stages further in each later one
Entered(stage, k, c) ==
    /\ Len(visited) >= k + 6 * (c - 1)
    /\ visited[k + 6 * (c - 1)] = <<stage, c>>

ProfileFields == {"min", "max", "center", "left_neighbor", "right_neighbor"}

\* C22: every travel profile field starts unset, is written at most once and
\* then keeps its value; a motor's min is set exactly when the drive-to-limit
\* stage of its own iteration is over and its result stored, its max exactly
\* when the tension-partners stage of its diagonal partner's iteration is
\* over and its results stored.
C22_ProfilePopulatedOnce ==
    /\ [](\A m \in Motors :
            /\ ip = 1 => \A f \in ProfileFields : ~Profile(f, m).set
            /\ \A f \in ProfileFields :
                  /\ Len(writes[f][m]) <= 1
                  /\ Profile(f, m).set <=> Len(writes[f][m]) = 1
            /\ travel_min[m].set <=> Past("2.2", CornerOf(m))
            /\ travel_min[m].set =>
                  Entered("DRIVE_TO_LIMIT", 3, CornerOf(m))
            /\ travel_max[m].set <=> Past("2.5", CornerOf(Diagonal(m)))
            /\ travel_max[m].set =>
                  Entered("TENSION_PARTNERS", 5, CornerOf(Diagonal(m))))
    /\ [][\A m \in Motors : \A f \in ProfileFields :
             Profile(f, m).set => Profile(f, m)' = Profile(f, m)]_vars

\* the second iteration holds its corner: two mins and one max are set,
\* the max of top_left and everything of the later corners are not
C22_Witness ==
    /\ program = "main" /\ pc = "2.3" /\ corner = 2
    /\ travel_min["top_left"].set /\ travel_min["bottom_right"].set
    /\ travel_max["bottom_right"].set /\ ~travel_max["top_left"].set
    /\ ~travel_min["bottom_left"].set /\ ~travel_min["top_right"].set
    /\ travel_min["top_left"].val # travel_min["bottom_right"].val

\* the final state of the run: centers computed, final move completed
RunComplete ==
    /\ pc = "end"
    /\ \A m \in Motors :
          /\ travel_center[m].set
          /\ cmd[m].kind = "run_target" /\ cmd[m].step = "3.2"
          /\ task[m] = "done"

\* C23: with fair actuators the run reaches its final state, all four
\* centers computed and the final move completed; there is no timeout: the
\* script does not leave a stage while an awaited motor task keeps running,
\* so a motor of a join-all stage that never stops keeps the run there.
C23_RunCompletesUnlessMotorStuck ==
    /\ (program = "main") ~> RunComplete
    /\ [][\A m \in Motors :
             (task[m] = "running" /\ task'[m] = "running") => ip' = ip]_vars

\* a join-all stage with one partner stalled and another still turning: the
\* script waits
C23_Witness ==
    /\ program = "main" /\ pc = "2.4_await" /\ ~race
    /\ \E m \in Motors : task[m] = "done" /\ mode[m] = "hold"
    /\ \E m \in Motors : task[m] = "running"
    /\ ENABLED (\E m \in Motors : MotorStalls(m))
    /\ ~ENABLED StageReturns

\* the statements at which the script awaits run_task_monitored
AwaitSteps == {"1.1_await", "2.1_await", "2.4_await", "2.7_await", "3.2_await"}

\* C24: the telemetry task runs only while a stage run by
\* run_task_monitored is awaited, and is cancelled when the stage returns;
\* its steps touch no motor and no task, so it never ends the race, and a
\* join-all stage returns only when all its motors have met their own stop
\* conditions.
C24_TelemetryNeverWins ==
    /\ [](program = "main" => (telemetry # "off" <=> pc \in AwaitSteps))
    /\ [](program = "relax" => telemetry = "off")
    /\ [][(telemetry # "off" /\ telemetry' # "off" /\ telemetry' # telemetry)
             => UNCHANGED <<ip, task, mode, cmd, angle, race>>]_vars
    /\ [][(telemetry # "off" /\ telemetry' = "off")
             => /\ pc \in AwaitSteps /\ ip' = ip + 1
                /\ \A m \in Motors : task[m] # "running" /\ task'[m] = task[m]
                /\ ~race =>
                      \A m \in Motors : task[m] = "none" \/ task[m] = "done"
         ]_vars

\* the partners stage is awaited, the telemetry task has printed and waits,
\* one partner has stalled, another has not
C24_Witness ==
    /\ program = "main" /\ pc = "2.4_await" /\ ~race
    /\ telemetry = "waiting"
    /\ \E m \in Motors : task[m] = "done"
    /\ \E m \in Motors : task[m] = "running"

\* the corners in clockwise order
Clockwise == <<"top_left", "top_right", "bottom_right", "bottom_left">>

ClockPos(m) == CHOOSE i \in 1..4 : Clockwise[i] = m
Successor(m) == Clockwise[(ClockPos(m) % 4) + 1]
Predecessor(m) == Clockwise[((ClockPos(m) + 2) % 4) + 1]

\* the iterations that wrote field f of motor m
WrittenBy(f, m) == {writes[f][m][i][2] : i \in 1..Len(writes[f][m])}

\* C25: a motor's left_neighbor is written in the iteration that drives its
\* clockwise successor, its right_neighbor in the iteration that drives its
\* clockwise predecessor, and in no other; no iteration writes a neighbor
\* field of its driven corner or of that corner's diagonal partner.
C25_NeighborsFollowRotation ==
    [](\A m \in Motors :
         LET left == writes["left_neighbor"][m]
             right == writes["right_neighbor"][m]
             succ == CornerOf(Successor(m))
             pred == CornerOf(Predecessor(m))
             own == CornerOf(m)
             diag == CornerOf(Diagonal(m))
         IN /\ \A i \in 1..Len(left) : left[i][2] = succ
            /\ \A i \in 1..Len(right) : right[i][2] = pred
            /\ travel_left_neighbor[m].set <=> Past("2.5", succ)
            /\ travel_right_neighbor[m].set <=> Past("2.5", pred)
            /\ \A i \in 1..Len(left) : left[i][2] # own /\ left[i][2] # diag
            /\ \A i \in 1..Len(right) : right[i][2] # own /\ right[i][2] # diag)

\* after the four iterations every motor has both neighbor values, written
\* by the iterations of its two clockwise neighbors
C25_Witness ==
    /\ program = "main" /\ pc = "3.1"
    /\ \A m \in Motors :
          /\ WrittenBy("left_neighbor", m) = {CornerOf(Successor(m))}
          /\ WrittenBy("right_neighbor", m) = {CornerOf(Predecessor(m))}
          /\ Successor(m) # Predecessor(m)
          /\ Successor(Predecessor(m)) = m

\* C26: every target angle handed to run_target, the calibration origin of
\* a return-to-origin stage as well as the center of the final move, is a
\* whole number of degrees, whatever integer min and max were recorded.
C26_TargetsAreWholeDegrees ==
    \A m \in Motors :
       cmd[m].kind = "run_target" => cmd[m].target.den = 1

====
